---- MODULE Spec2Model ----
(***************************************************************************)
(* Model of the federated aggregation engine of                            *)
(* src/llm-training/federated_ai_system.py: the registry of AI helpers     *)
(* (FederatedAISystem.helpers), the aggregation history, the human         *)
(* feedback log, and the operations add_helper, analyze_candidate,         *)
(* provide_human_feedback and get_system_status.                           *)
(*                                                                         *)
(* Numbers.  The program computes in IEEE doubles.  The model computes in  *)
(* fixed point and rounds every product and quotient to the nearest unit:  *)
(*   weights            in units of 1/WScale  (1.0 = WScale),              *)
(*   helper predictions in units of 1/PScale  (1.0 = PScale),              *)
(*   consensus and confidence in units of 1/CScale (1.0 = CScale).         *)
(* The aggregated prediction is kept as the exact quotient num/den of the  *)
(* weighted sum and the total weight, in prediction units.                 *)
(* Timestamps, processing times and the random per-feature importances of  *)
(* AIHelper._identify_key_factors carry no behaviour and are left out.     *)
(***************************************************************************)
EXTENDS Integers, Sequences, FiniteSets, TLC

\* ------------------------------------------------------------------ bounds
MaxCalls == 5
MaxWideCalls == 4
MaxDeepFeedbackCalls == 11

\* ------------------------------------------------------------ number scales
WScale == 100 * 100
PScale == WScale \div 1000
CScale == WScale \div 10

\* ------------------------------------------------------- program constants
InitialWeightPct == 100
NudgeUpPct == 105
NudgeDownPct == 95
WeightCapPct == 200
WeightFloorPct == 10
EmaKeepPct == 80
EmaGainPct == 20
WindowSize == 10
ConsensusTrendSize == 10
ConsensusStdFactor == 2
ConfidenceBasePct == 70
ConfidenceConsensusPct == 30
DefaultPredictionPct == 50
StrongThresholdPct == 70
PotentialThresholdPct == 50
WeakThresholdPct == 30

\* -------------------------------------------------------------- input sets
HelperIds == <<"h1", "h2", "h3">>
Specializations == {"transit", "general"}
Observations == {"obsA"}
Predictions == {2, 8}
WidePredictions == {0, 2, 5, 8, 10}
GroundTruths == {<<>>, <<TRUE>>, <<FALSE>>}

VARIABLES helpers, aggregation_history, human_feedback_log,
          registerCalls, analyzeCalls, feedbackCalls, call

vars == <<helpers, aggregation_history, human_feedback_log,
          registerCalls, analyzeCalls, feedbackCalls, call>>

\* ---------------------------------------------------------------- helpers
Min(a, b) == IF a <= b THEN a ELSE b

Max(a, b) == IF a >= b THEN a ELSE b

Abs(a) == IF a >= 0 THEN a ELSE 0 - a

\* a / b rounded to the nearest unit, for a >= 0 and b > 0
RoundDiv(a, b) == (2 * a + b) \div (2 * b)

\* p percent, as a weight
Pct(p) == (p * WScale) \div 100

RECURSIVE SumSeq(_)
SumSeq(s) == IF s = <<>> THEN 0 ELSE s[1] + SumSeq(Tail(s))

RECURSIVE IsqrtFrom(_, _, _)
IsqrtFrom(x, lo, hi) ==
    IF lo >= hi THEN lo
    ELSE LET mid == (lo + hi + 1) \div 2
         IN  IF mid * mid <= x THEN IsqrtFrom(x, mid, hi)
             ELSE IsqrtFrom(x, lo, mid - 1)

\* floor of the square root of x, for 0 <= x <= (2 * CScale)^2
Isqrt(x) == IsqrtFrom(x, 0, 2 * CScale)

\* ---------------------------------------------------------------- AIHelper
\* AIHelper.__init__: a fresh helper has weight 1.0 and no performance history
NewHelper(helper_id, specialization) ==
    [helper_id |-> helper_id,
     specialization |-> specialization,
     reliability_weight |-> Pct(InitialWeightPct),
     performance_history |-> <<>>]

\* AIHelper.analyze_data: the result of one helper; the network's output p is
\* an input of the model, confidence = abs(p - 0.5) * 2
AnalyzeData(helper, p) ==
    [helper_id |-> helper.helper_id,
     prediction |-> p,
     confidence |-> Abs(2 * p - PScale)]

\* AIHelper._get_prediction_reasoning
PredictionReasoning(p) ==
    IF 100 * p > StrongThresholdPct * PScale THEN "strong"
    ELSE IF 100 * p > PotentialThresholdPct * PScale THEN "potential"
    ELSE IF 100 * p > WeakThresholdPct * PScale THEN "weak"
    ELSE "not_exoplanet"

\* performance_history[-10:]
RecentPerformance(history) ==
    IF Len(history) <= WindowSize THEN history
    ELSE SubSeq(history, Len(history) - WindowSize + 1, Len(history))

\* sum(p['prediction_correct'] for p in recent_performance)
CorrectCount(recent) == Cardinality({i \in 1..Len(recent) : recent[i]})

\* accuracy over the recent samples, as a weight
Accuracy(recent) == RoundDiv(CorrectCount(recent) * WScale, Len(recent))

\* the moving average keeping the whole of the old weight: weight + 0.2 * accuracy
EmaWeightKeepAll(weight, accuracy) ==
    RoundDiv(100 * weight + EmaGainPct * accuracy, 100)

\* 0.8 * reliability_weight + 0.2 * accuracy
EmaWeight(weight, accuracy) ==
    RoundDiv(EmaKeepPct * weight + EmaGainPct * accuracy, 100)

\* AIHelper.update_reliability
UpdateReliability(helper, feedback, ground_truth) ==
    LET history == Append(helper.performance_history, feedback = ground_truth)
    IN  [helper EXCEPT
            !.performance_history = history,
            !.reliability_weight =
                EmaWeight(helper.reliability_weight,
                          Accuracy(RecentPerformance(history)))]

\* ------------------------------------------------------- FederatedAISystem
\* the positions of helper_id in the registry (at most one)
HelperIndex(hs, helper_id) == {i \in 1..Len(hs) : hs[i].helper_id = helper_id}

HelperIdsOf(hs) == {hs[i].helper_id : i \in 1..Len(hs)}

\* self.helpers[helper_id] = helper: a new key is appended, an existing key
\* keeps its position and gets the new helper
SetHelper(hs, helper) ==
    IF helper.helper_id \in HelperIdsOf(hs)
    THEN [i \in 1..Len(hs) |->
             IF hs[i].helper_id = helper.helper_id THEN helper ELSE hs[i]]
    ELSE Append(hs, helper)

\* FederatedAISystem.add_helper
AddHelper(hs, helper_id, specialization) ==
    SetHelper(hs, NewHelper(helper_id, specialization))

\* the helper_results of analyze_candidate, in registration order
HelperResults(hs, preds) ==
    [i \in 1..Len(hs) |-> AnalyzeData(hs[i], preds[i])]

\* {k: v.reliability_weight for k, v in self.helpers.items()}
HelperWeights(hs) ==
    [i \in 1..Len(hs) |->
        [helper_id |-> hs[i].helper_id, weight |-> hs[i].reliability_weight]]

\* {k: {'prediction': ..., 'confidence': ...} for k, v in helper_results.items()}
IndividualResults(results) ==
    [i \in 1..Len(results) |->
        [helper_id |-> results[i].helper_id,
         prediction |-> results[i].prediction,
         confidence |-> results[i].confidence]]

\* self.helpers[helper_id].reliability_weight
WeightOf(hs, helper_id) ==
    LET i == CHOOSE j \in HelperIndex(hs, helper_id) : TRUE
    IN  hs[i].reliability_weight

\* weighted_prediction summed without the reliability weights
WeightedPredictionUnweighted(hs, results) ==
    SumSeq([i \in 1..Len(results) |->
               Pct(InitialWeightPct) * results[i].prediction])

\* weighted_prediction: the sum of weight * prediction over the results
WeightedPrediction(hs, results) ==
    SumSeq([i \in 1..Len(results) |->
               WeightOf(hs, results[i].helper_id) * results[i].prediction])

\* total_weight assigned instead of accumulated: the weight of the last result
TotalWeightLastOnly(hs, results) ==
    IF results = <<>> THEN 0
    ELSE WeightOf(hs, results[Len(results)].helper_id)

\* total_weight: the sum of the weights of the helpers with a result
TotalWeight(hs, results) ==
    SumSeq([i \in 1..Len(results) |-> WeightOf(hs, results[i].helper_id)])

\* weighted_prediction / total_weight if total_weight > 0 else 0.5
FinalPrediction(weighted_prediction, total_weight) ==
    IF total_weight > 0
    THEN [num |-> weighted_prediction, den |-> total_weight]
    ELSE [num |-> DefaultPredictionPct * PScale, den |-> 100]

\* predictions = [result.prediction for result in helper_results.values()]
PredictionsOf(results) == [i \in 1..Len(results) |-> results[i].prediction]

\* n * n times the population variance of the predictions, in squared
\* prediction units: n * sum(p^2) - sum(p)^2
ScaledVariance(predictions) ==
    LET n == Len(predictions)
        s1 == SumSeq(predictions)
        s2 == SumSeq([i \in 1..n |-> predictions[i] * predictions[i]])
    IN  n * s2 - s1 * s1

\* np.std(predictions): the population standard deviation, in consensus units
StdDev(predictions) ==
    LET n == Len(predictions)
    IN  Isqrt((CScale * CScale * ScaledVariance(predictions))
                  \div (n * n * PScale * PScale))

\* _calculate_consensus without the factor 2 on the standard deviation
CalculateConsensusNoFactor(results) ==
    LET predictions == PredictionsOf(results)
    IN  IF Len(predictions) <= 1 THEN CScale
        ELSE Max(0, CScale - StdDev(predictions))

\* FederatedAISystem._calculate_consensus
CalculateConsensus(results) ==
    LET predictions == PredictionsOf(results)
    IN  IF Len(predictions) <= 1 THEN CScale
        ELSE Max(0, CScale - ConsensusStdFactor * StdDev(predictions))

\* FederatedAISystem._calculate_aggregate_confidence; sum(weights) is not zero
\* where it is called
CalculateAggregateConfidence(hs, results) ==
    LET weighted == SumSeq([i \in 1..Len(results) |->
                        results[i].confidence * WeightOf(hs, results[i].helper_id)])
        weighted_confidence ==
            RoundDiv(weighted * (CScale \div PScale), TotalWeight(hs, results))
        consensus_factor == CalculateConsensus(results)
        factor == RoundDiv(ConfidenceBasePct * CScale
                             + ConfidenceConsensusPct * consensus_factor, 100)
    IN  Min(CScale, RoundDiv(weighted_confidence * factor, CScale))

\* reasoning_votes[reasoning]: the summed weight of the helpers that gave it
ReasoningVotes(hs, results, reasoning) ==
    SumSeq([i \in 1..Len(results) |->
               IF PredictionReasoning(results[i].prediction) = reasoning
               THEN WeightOf(hs, results[i].helper_id) ELSE 0])

\* max(reasoning_votes.items(), key=lambda x: x[1])[0]: the reasoning with the
\* most votes, the first seen among equals; defined for a nonempty results
PrimaryReasoning(hs, results) ==
    LET votes(i) == ReasoningVotes(hs, results,
                                   PredictionReasoning(results[i].prediction))
        best == CHOOSE i \in 1..Len(results) :
                    /\ \A j \in 1..Len(results) : votes(j) <= votes(i)
                    /\ \A j \in 1..(i - 1) : votes(j) < votes(i)
    IN  PredictionReasoning(results[best].prediction)

\* FederatedAISystem._aggregate_explanations, without the per-feature factors
AggregateExplanations(hs, results) ==
    [primary_reasoning |-> PrimaryReasoning(hs, results),
     specialization_insights |->
        [i \in 1..Len(results) |->
            [helper_id |-> results[i].helper_id,
             specialization |->
                hs[CHOOSE j \in HelperIndex(hs, results[i].helper_id) : TRUE]
                    .specialization]]]

\* FederatedAISystem._aggregate_predictions, for a nonempty helper_results
AggregatePredictions(hs, results) ==
    [prediction |-> FinalPrediction(WeightedPrediction(hs, results),
                                    TotalWeight(hs, results)),
     confidence |-> CalculateAggregateConfidence(hs, results),
     explanation |-> AggregateExplanations(hs, results),
     individual_results |-> IndividualResults(results),
     helper_weights |-> HelperWeights(hs),
     consensus_strength |-> CalculateConsensus(results)]

\* the entry analyze_candidate appends to aggregation_history
AnalysisRecord(hs, data, preds) ==
    LET results == HelperResults(hs, preds)
    IN  [input_data |-> data,
         helper_results |-> results,
         aggregated_result |-> AggregatePredictions(hs, results)]

\* the history keeping only its latest slot: the new record replaces the last
AppendAnalysisOverwrite(history, record) ==
    IF history = <<>> THEN <<record>>
    ELSE [history EXCEPT ![Len(history)] = record]

\* the new record put at the front of the history
AppendAnalysisFront(history, record) == <<record>> \o history

\* self.aggregation_history.append(...)
AppendAnalysis(history, record) == Append(history, record)

\* the multiplicative step of provide_human_feedback
NudgeWeight(weight, is_correct) ==
    IF is_correct
    THEN Min(Pct(WeightCapPct), RoundDiv(weight * NudgeUpPct, 100))
    ELSE Max(Pct(WeightFloorPct), RoundDiv(weight * NudgeDownPct, 100))

\* the ground truth with an omitted one taken as True
EffectiveGroundTruthDefaultTrue(is_correct, ground_truth) ==
    IF ground_truth # <<>> THEN ground_truth[1] ELSE TRUE

\* ground_truth if ground_truth is not None else is_correct
EffectiveGroundTruth(is_correct, ground_truth) ==
    IF ground_truth # <<>> THEN ground_truth[1] ELSE is_correct

\* the body of the loop of provide_human_feedback for one helper
FeedbackHelper(helper, is_correct, ground_truth) ==
    UpdateReliability(
        [helper EXCEPT !.reliability_weight =
                           NudgeWeight(helper.reliability_weight, is_correct)],
        is_correct,
        EffectiveGroundTruth(is_correct, ground_truth))

\* the helper ids of analysis['helper_results']
Participants(record) ==
    {record.helper_results[i].helper_id : i \in 1..Len(record.helper_results)}

\* the loop of provide_human_feedback over analysis['helper_results']
FeedbackHelpers(hs, record, is_correct, ground_truth) ==
    [i \in 1..Len(hs) |->
        IF hs[i].helper_id \in Participants(record)
        THEN FeedbackHelper(hs[i], is_correct, ground_truth)
        ELSE hs[i]]

\* analysis_id >= len(self.aggregation_history): the id is refused
IsInvalidId(history, analysis_id) == analysis_id >= Len(history)

\* self.aggregation_history[analysis_id] raises IndexError
IsIndexError(history, analysis_id) == analysis_id < 0 - Len(history)

\* self.aggregation_history[analysis_id]: a negative index counts from the end
HistoryAt(history, analysis_id) ==
    IF analysis_id >= 0 THEN history[analysis_id + 1]
    ELSE history[Len(history) + analysis_id + 1]

\* feedback_entry
FeedbackEntry(history, analysis_id, is_correct, ground_truth) ==
    [analysis_id |-> analysis_id,
     human_feedback |-> is_correct,
     ground_truth |-> ground_truth,
     prediction |-> HistoryAt(history, analysis_id).aggregated_result.prediction]

\* get_system_status with total_feedback taken from the count of the entries
\* marked correct instead of the length of the log
SystemStatusCorrectOnly(hs, history, log) ==
    LET correct == Cardinality({i \in 1..Len(log) : log[i].human_feedback})
    IN  [total_analyses |-> Len(history),
         total_feedback |-> correct,
         system_accuracy |-> IF correct > 0 THEN CScale ELSE 0,
         helper_count |-> Len(hs),
         helper_statistics |->
            [i \in 1..Len(hs) |->
                [helper_id |-> hs[i].helper_id,
                 reliability_weight |-> hs[i].reliability_weight,
                 specialization |-> hs[i].specialization,
                 performance_history_length |->
                     Len(hs[i].performance_history)]],
         recent_consensus_scores |->
            [i \in 1..Min(Len(history), ConsensusTrendSize) |->
                history[Len(history) - Min(Len(history), ConsensusTrendSize) + i]
                    .aggregated_result.consensus_strength]]

\* FederatedAISystem.get_system_status
SystemStatusOf(hs, history, log) ==
    LET total_feedback == Len(log)
        correct == Cardinality({i \in 1..total_feedback : log[i].human_feedback})
        n == Len(history)
        recent == IF n <= ConsensusTrendSize THEN history
                  ELSE SubSeq(history, n - ConsensusTrendSize + 1, n)
    IN  [total_analyses |-> n,
         total_feedback |-> total_feedback,
         system_accuracy |-> IF total_feedback > 0
                             THEN RoundDiv(correct * CScale, total_feedback)
                             ELSE 0,
         helper_count |-> Len(hs),
         helper_statistics |->
            [i \in 1..Len(hs) |->
                [helper_id |-> hs[i].helper_id,
                 reliability_weight |-> hs[i].reliability_weight,
                 specialization |-> hs[i].specialization,
                 performance_history_length |->
                     Len(hs[i].performance_history)]],
         recent_consensus_scores |->
            [i \in 1..Len(recent) |-> CalculateConsensus(recent[i].helper_results)]]

\* get_system_status() in the current state
SystemStatus ==
    SystemStatusOf(helpers, aggregation_history, human_feedback_log)

\* ----------------------------------------------------------------- actions
\* the operation just performed and how it ended
Call(op, outcome) == [op |-> op, outcome |-> outcome]

\* FederatedAISystem.__init__
Init ==
    /\ helpers = <<>>
    /\ aggregation_history = <<>>
    /\ human_feedback_log = <<>>
    /\ registerCalls = 0
    /\ analyzeCalls = 0
    /\ feedbackCalls = 0
    /\ call = Call("init", "ok")

\* add_helper(helper_id, specialization)
Register(helper_id, specialization) ==
    /\ helpers' = AddHelper(helpers, helper_id, specialization)
    /\ registerCalls' = registerCalls + 1
    /\ call' = Call("add_helper", "ok")
    /\ UNCHANGED <<aggregation_history, human_feedback_log,
                   analyzeCalls, feedbackCalls>>

\* analyze_candidate(data) answering the default prediction 0.5 when there is
\* no helper, and storing that answer like any other
AnalyzeDefaultOnEmpty(data, preds) ==
    /\ analyzeCalls' = analyzeCalls + 1
    /\ aggregation_history' =
          AppendAnalysis(aggregation_history,
                         IF helpers = <<>>
                         THEN [input_data |-> data,
                               helper_results |-> <<>>,
                               aggregated_result |->
                                  [prediction |-> FinalPrediction(0, 0),
                                   consensus_strength |-> CScale]]
                         ELSE AnalysisRecord(helpers, data, preds))
    /\ call' = Call("analyze_candidate", "ok")
    /\ UNCHANGED <<helpers, human_feedback_log, registerCalls, feedbackCalls>>

\* analyze_candidate(data), the helpers' networks answering preds; with no
\* helper, max() of the empty reasoning_votes raises ValueError before the
\* history is touched
Analyze(data, preds) ==
    /\ analyzeCalls' = analyzeCalls + 1
    /\ IF helpers = <<>>
       THEN /\ call' = Call("analyze_candidate", "ValueError")
            /\ UNCHANGED aggregation_history
       ELSE /\ aggregation_history' =
                 AppendAnalysis(aggregation_history,
                                AnalysisRecord(helpers, data, preds))
            /\ call' = Call("analyze_candidate", "ok")
    /\ UNCHANGED <<helpers, human_feedback_log, registerCalls, feedbackCalls>>

\* provide_human_feedback(analysis_id, is_correct, ground_truth)
Feedback(analysis_id, is_correct, ground_truth) ==
    /\ feedbackCalls' = feedbackCalls + 1
    /\ IF IsInvalidId(aggregation_history, analysis_id)
       THEN /\ call' = Call("provide_human_feedback", "invalid_id")
            /\ UNCHANGED <<helpers, human_feedback_log>>
       ELSE IF IsIndexError(aggregation_history, analysis_id)
       THEN /\ call' = Call("provide_human_feedback", "IndexError")
            /\ UNCHANGED <<helpers, human_feedback_log>>
       ELSE /\ human_feedback_log' =
                 Append(human_feedback_log,
                        FeedbackEntry(aggregation_history, analysis_id,
                                      is_correct, ground_truth))
            /\ helpers' =
                 FeedbackHelpers(helpers,
                                 HistoryAt(aggregation_history, analysis_id),
                                 is_correct, ground_truth)
            /\ call' = Call("provide_human_feedback", "ok")
    /\ UNCHANGED <<aggregation_history, registerCalls, analyzeCalls>>

\* the helper ids tried: every registered one, and the first unused one (the
\* program treats all ids alike, so which unused id comes next is immaterial)
RegisterIds ==
    HelperIdsOf(helpers)
       \cup (IF Len(helpers) < Len(HelperIds)
             THEN {HelperIds[Len(helpers) + 1]} ELSE {})

\* the analysis ids tried: every valid one, one past the end, and -1
AnalysisIds == (0 - 1)..Len(aggregation_history)

\* the calls made so far
TotalCalls == registerCalls + analyzeCalls + feedbackCalls

Next ==
    \/ \E helper_id \in RegisterIds, specialization \in Specializations :
          /\ TotalCalls < MaxCalls
          /\ Register(helper_id, specialization)
    \/ \E data \in Observations, preds \in [1..Len(helpers) -> Predictions] :
          /\ TotalCalls < MaxCalls
          /\ Analyze(data, preds)
    \/ \E analysis_id \in AnalysisIds, is_correct \in BOOLEAN,
          ground_truth \in GroundTruths :
          /\ TotalCalls < MaxCalls
          /\ Feedback(analysis_id, is_correct, ground_truth)

Spec == Init /\ [][Next]_vars

\* ------------------------------------------------- one helper, long feedback
\* <<is_correct, ground_truth>>: confirmed without a ground truth, refuted
\* without one, and refuted against a ground truth that holds
DeepFeedbackInputs == {<<TRUE, <<>>>>, <<FALSE, <<>>>>, <<FALSE, <<TRUE>>>>}

\* one helper is registered, one candidate is analysed, and feedback on that
\* analysis is given again and again
NextDeep ==
    \/ \E specialization \in Specializations :
          /\ helpers = <<>>
          /\ Register("h1", specialization)
    \/ \E data \in Observations, preds \in [1..Len(helpers) -> Predictions] :
          /\ helpers # <<>>
          /\ aggregation_history = <<>>
          /\ Analyze(data, preds)
    \/ \E input \in DeepFeedbackInputs :
          /\ aggregation_history # <<>>
          /\ feedbackCalls < MaxDeepFeedbackCalls
          /\ Feedback(0, input[1], input[2])

SpecDeep == Init /\ [][NextDeep]_vars

\* ------------------------------------------- fewer calls, more predictions
NextWide ==
    \/ \E helper_id \in RegisterIds, specialization \in Specializations :
          /\ TotalCalls < MaxWideCalls
          /\ Register(helper_id, specialization)
    \/ \E data \in Observations, preds \in [1..Len(helpers) -> WidePredictions] :
          /\ TotalCalls < MaxWideCalls
          /\ Analyze(data, preds)
    \/ \E analysis_id \in AnalysisIds, is_correct \in BOOLEAN,
          ground_truth \in GroundTruths :
          /\ TotalCalls < MaxWideCalls
          /\ Feedback(analysis_id, is_correct, ground_truth)

SpecWide == Init /\ [][NextWide]_vars

\* ------------------------------------------------------------------ claims
\* C1: after any sequence of register, analyze and feedback calls every
\* registered helper's reliability_weight is within [0.1, 2.0].
C1_WeightWithinClamp ==
    \A i \in 1..Len(helpers) :
        /\ helpers[i].reliability_weight >= Pct(WeightFloorPct)
        /\ helpers[i].reliability_weight <= Pct(WeightCapPct)

\* the step is a call of provide_human_feedback that appended its entry
AcceptedFeedbackStep ==
    /\ feedbackCalls' = feedbackCalls + 1
    /\ Len(human_feedback_log') = Len(human_feedback_log) + 1

\* the step is a call of analyze_candidate that returned a result
SuccessfulAnalyzeStep ==
    /\ analyzeCalls' = analyzeCalls + 1
    /\ call'.outcome = "ok"

\* the entry an accepted feedback step appended
NewEntry == human_feedback_log'[Len(human_feedback_log')]

\* C2: an accepted feedback call with is_correct = TRUE lowers the weight of
\* no helper that took part in the addressed analysis, and one with
\* is_correct = FALSE raises the weight of none (stated for the calls whose
\* id is not negative).
C2_FeedbackMonotone ==
    [][(AcceptedFeedbackStep /\ NewEntry.analysis_id >= 0) =>
          \A i \in 1..Len(helpers) :
              helpers[i].helper_id
                    \in Participants(HistoryAt(aggregation_history,
                                               NewEntry.analysis_id))
                 => IF NewEntry.human_feedback
                    THEN helpers'[i].reliability_weight
                            >= helpers[i].reliability_weight
                    ELSE helpers'[i].reliability_weight
                            <= helpers[i].reliability_weight]_vars

\* C3 as claimed: total_analyses is the number of analyze calls and
\* total_feedback the number of feedback calls, whatever their arguments.
C3_StatusCountsEveryCall ==
    /\ SystemStatus.total_analyses = analyzeCalls
    /\ SystemStatus.total_feedback = feedbackCalls

\* C3 amended: total_analyses grows by one with every analyze call that
\* returns a result and total_feedback by one with every feedback call that
\* is accepted; no other call changes either, and both start at zero.
C3_StatusCountsSuccessfulCalls ==
    /\ [](/\ SystemStatus.total_analyses <= analyzeCalls
          /\ SystemStatus.total_feedback <= feedbackCalls
          /\ (analyzeCalls = 0 => SystemStatus.total_analyses = 0)
          /\ (feedbackCalls = 0 => SystemStatus.total_feedback = 0))
    /\ [][/\ Len(aggregation_history') =
                Len(aggregation_history)
                   + (IF SuccessfulAnalyzeStep THEN 1 ELSE 0)
          /\ Len(human_feedback_log') =
                Len(human_feedback_log)
                   + (IF /\ feedbackCalls' = feedbackCalls + 1
                         /\ call'.outcome = "ok"
                      THEN 1 ELSE 0)
          /\ SystemStatusOf(helpers', aggregation_history',
                            human_feedback_log').total_analyses
                = Len(aggregation_history')
          /\ SystemStatusOf(helpers', aggregation_history',
                            human_feedback_log').total_feedback
                = Len(human_feedback_log')]_vars

\* C3 witness: calls of both kinds have failed and calls of both kinds have
\* succeeded, so the status counts are positive and below the call counts
C3_Witness ==
    /\ SystemStatus.total_analyses > 0
    /\ SystemStatus.total_analyses < analyzeCalls
    /\ SystemStatus.total_feedback > 0
    /\ SystemStatus.total_feedback < feedbackCalls

\* C4: registering an id that is already registered is refused and leaves
\* the registry as it was: the registered helper keeps its weight, its
\* specialization and its performance history.
C4_DuplicateRegisterRejected ==
    [][(/\ registerCalls' = registerCalls + 1
        /\ Len(helpers') = Len(helpers))
          => helpers' = helpers]_vars

\* C5: a feedback call whose id names no existing record (at or past the end
\* of the history, or negative) appends nothing to the log and changes no
\* helper: whenever a feedback call changes the log or a helper, its id is one
\* of 0 .. len(history) - 1.
C5_UnknownSequenceRejected ==
    [][(/\ feedbackCalls' = feedbackCalls + 1
        /\ \/ human_feedback_log' # human_feedback_log
           \/ helpers' # helpers)
          => /\ AcceptedFeedbackStep
             /\ NewEntry.analysis_id \in 0..(Len(aggregation_history) - 1)]_vars

\* the helper ids and predictions of a record's results agree, position by
\* position, with its individual_results and its helper_weights
SameHelpers(record) ==
    LET a == record.aggregated_result
    IN  /\ Len(a.helper_weights) = Len(record.helper_results)
        /\ Len(a.individual_results) = Len(record.helper_results)
        /\ \A i \in 1..Len(record.helper_results) :
              /\ a.helper_weights[i].helper_id = record.helper_results[i].helper_id
              /\ a.individual_results[i].helper_id
                    = record.helper_results[i].helper_id
              /\ a.individual_results[i].prediction
                    = record.helper_results[i].prediction

\* C6: the aggregated prediction of every analysis lies between the smallest
\* and the largest of that analysis' helper predictions.
C6_PredictionWithinRange ==
    \A k \in 1..Len(aggregation_history) :
        LET record == aggregation_history[k]
            p == record.aggregated_result.prediction
            results == record.helper_results
        IN  /\ p.den > 0
            /\ \E i \in 1..Len(results) : results[i].prediction * p.den <= p.num
            /\ \E i \in 1..Len(results) : p.num <= results[i].prediction * p.den

\* C6 witness: an analysis by two helpers of unequal weight and unequal
\* predictions, aggregated strictly between the two
C6_Witness ==
    \E k \in 1..Len(aggregation_history) :
        LET record == aggregation_history[k]
            p == record.aggregated_result.prediction
            results == record.helper_results
            weights == record.aggregated_result.helper_weights
        IN  /\ Len(results) = 2
            /\ weights[1].weight # weights[2].weight
            /\ \E i \in 1..2 : results[i].prediction * p.den < p.num
            /\ \E i \in 1..2 : p.num < results[i].prediction * p.den

\* all the predictions are the same
Unanimous(predictions) ==
    \A i, j \in 1..Len(predictions) : predictions[i] = predictions[j]

\* s is the population standard deviation of the predictions, in consensus
\* units and rounded down: s^2 <= variance < (s + 1)^2
IsStdDev(s, predictions) ==
    LET n == Len(predictions)
        lhs == CScale * CScale * ScaledVariance(predictions)
        unit == n * n * PScale * PScale
    IN  /\ s >= 0
        /\ s * s * unit <= lhs
        /\ lhs < (s + 1) * (s + 1) * unit

\* C7: the consensus_strength of an analysis is 1.0 exactly when one helper
\* took part or all predictions are identical; otherwise it is
\* max(0, 1 - 2 * stddev(predictions)) and below 1.0.
C7_ConsensusOneIffUnanimous ==
    \A k \in 1..Len(aggregation_history) :
        LET record == aggregation_history[k]
            predictions == PredictionsOf(record.helper_results)
            c == record.aggregated_result.consensus_strength
        IN  /\ c = CScale <=> (Len(predictions) = 1 \/ Unanimous(predictions))
            /\ c # CScale =>
                  /\ c < CScale
                  /\ \E s \in (IF c > 0
                              THEN {(CScale - c) \div ConsensusStdFactor}
                              ELSE (CScale \div ConsensusStdFactor)..CScale) :
                        /\ IsStdDev(s, predictions)
                        /\ c = Max(0, CScale - ConsensusStdFactor * s)

\* C7 witness: three helpers, two of which agree, with a consensus strictly
\* between 0 and 1
C7_Witness ==
    \E k \in 1..Len(aggregation_history) :
        LET predictions == PredictionsOf(aggregation_history[k].helper_results)
            c == aggregation_history[k].aggregated_result.consensus_strength
        IN  /\ Len(predictions) = 3
            /\ predictions[1] = predictions[2]
            /\ predictions[2] # predictions[3]
            /\ c > 0
            /\ c < CScale

\* C8: a successful analysis returns sum(weight * prediction) / sum(weight)
\* over the registered helpers, with the weights the helpers have when the
\* call is made; the total weight is positive, so the 0.5 default is not
\* taken; predictions 0.2 and 0.8 under weights 1.0 and 1.0 give 0.5.
C8_WeightedMeanAtCall ==
    [][SuccessfulAnalyzeStep =>
          LET record == aggregation_history'[Len(aggregation_history')]
              p == record.aggregated_result.prediction
              results == record.helper_results
          IN  /\ Len(results) = Len(helpers)
              /\ \A i \in 1..Len(helpers) :
                    results[i].helper_id = helpers[i].helper_id
              /\ p.num = SumSeq([i \in 1..Len(helpers) |->
                            helpers[i].reliability_weight * results[i].prediction])
              /\ p.den = SumSeq([i \in 1..Len(helpers) |->
                            helpers[i].reliability_weight])
              /\ p.den > 0
              /\ (/\ PredictionsOf(results) = <<2, 8>>
                  /\ \A i \in 1..Len(helpers) :
                        helpers[i].reliability_weight = Pct(InitialWeightPct))
                    => 2 * p.num = PScale * p.den]_vars

\* C8 witness: an analysis by two helpers whose weights feedback has made
\* unequal, with unequal predictions
C8_Witness ==
    /\ call = Call("analyze_candidate", "ok")
    /\ LET record == aggregation_history[Len(aggregation_history)]
       IN  /\ Len(helpers) = 2
           /\ helpers[1].reliability_weight # helpers[2].reliability_weight
           /\ record.helper_results[1].prediction
                 # record.helper_results[2].prediction

\* the weighted mean of a record's individual predictions under the weights
\* the record itself holds
SnapshotMean(record) ==
    LET a == record.aggregated_result
        n == Len(a.helper_weights)
    IN  [num |-> SumSeq([i \in 1..n |->
                    a.helper_weights[i].weight * a.individual_results[i].prediction]),
         den |-> SumSeq([i \in 1..n |-> a.helper_weights[i].weight])]

\* C9: no call changes a record that is already in the history, and the
\* prediction a record holds stays the weighted mean of its helper predictions
\* under the weights it holds, whatever the helpers' weights have become.
C9_RecordsImmutable ==
    /\ [](\A k \in 1..Len(aggregation_history) :
             /\ SameHelpers(aggregation_history[k])
             /\ aggregation_history[k].aggregated_result.prediction
                   = SnapshotMean(aggregation_history[k]))
    /\ [][\A k \in 1..Len(aggregation_history) :
             /\ k <= Len(aggregation_history')
             /\ aggregation_history'[k] = aggregation_history[k]]_vars

\* C9 witness: feedback has moved a helper's weight away from the weight a
\* record holds for it, and a later analysis has been appended
C9_Witness ==
    /\ Len(aggregation_history) = 2
    /\ human_feedback_log # <<>>
    /\ \E i \in 1..Len(helpers) :
          /\ aggregation_history[1].aggregated_result.helper_weights[1].helper_id
                = helpers[i].helper_id
          /\ aggregation_history[1].aggregated_result.helper_weights[1].weight
                # helpers[i].reliability_weight

\* C10: a successful analysis appends exactly one record at the end of the
\* history, so that its id is the number of records before the call; no other
\* call changes the history, and no call removes or reorders records; an
\* accepted feedback call with id k >= 0 records the prediction of record k
\* and changes only helpers that took part in record k.
C10_SequenceIdsStable ==
    [][/\ Len(aggregation_history')
             = Len(aggregation_history) + (IF SuccessfulAnalyzeStep THEN 1 ELSE 0)
       /\ SubSeq(aggregation_history', 1, Len(aggregation_history))
             = aggregation_history
       /\ (AcceptedFeedbackStep /\ NewEntry.analysis_id >= 0) =>
             LET record == aggregation_history[NewEntry.analysis_id + 1]
             IN  /\ NewEntry.prediction = record.aggregated_result.prediction
                 /\ \A i \in 1..Len(helpers) :
                       helpers'[i] # helpers[i]
                          => helpers[i].helper_id \in Participants(record)
                 /\ \A i \in 1..Len(helpers) :
                       helpers[i].helper_id \in Participants(record)
                          => helpers'[i] # helpers[i]]_vars

\* C10 witness: two analyses with different predictions, and feedback on id 1
\* that recorded the prediction of the second and not of the first
C10_Witness ==
    /\ Len(aggregation_history) = 2
    /\ call = Call("provide_human_feedback", "ok")
    /\ LET e == human_feedback_log[Len(human_feedback_log)]
       IN  /\ e.analysis_id = 1
           /\ e.prediction = aggregation_history[2].aggregated_result.prediction
           /\ e.prediction # aggregation_history[1].aggregated_result.prediction

\* C11: the performance history of every helper holds at most WindowSize
\* samples, and the performance_history_length that get_system_status reports
\* for a helper never exceeds WindowSize.
C11_WindowAtMostTen ==
    \A i \in 1..Len(helpers) :
        /\ Len(helpers[i].performance_history) <= WindowSize
        /\ SystemStatus.helper_statistics[i].performance_history_length
              <= WindowSize

\* clamp(x, lo, hi)
Clamp(x, lo, hi) == Max(lo, Min(hi, x))

\* the fraction of true samples among the WindowSize most recent samples of
\* history, as a weight
WindowAccuracy(history) ==
    LET n == Len(history)
        m == Min(n, WindowSize)
        trues == {k \in 1..m : history[n - m + k]}
    IN  RoundDiv(Cardinality(trues) * WScale, m)

\* C12: every accepted feedback call on a record, repeated or not, appends
\* exactly one entry to the log, appends one sample to the performance history
\* of every helper that took part in the record and sets its weight to
\* 0.8 * w1 + 0.2 * accuracy, where w1 = clamp(w * 1.05 if is_correct else
\* w * 0.95, 0.1, 2.0) and accuracy is the fraction of true samples among the
\* ten most recent samples after the append; every other helper keeps its
\* weight and its performance history.
C12_TwoStepUpdate ==
    [][AcceptedFeedbackStep =>
          LET record == HistoryAt(aggregation_history, NewEntry.analysis_id)
          IN  /\ human_feedback_log' = Append(human_feedback_log, NewEntry)
              /\ Len(helpers') = Len(helpers)
              /\ \A i \in 1..Len(helpers) :
                    IF helpers[i].helper_id \in Participants(record)
                    THEN LET w == helpers[i].reliability_weight
                             nudged == IF NewEntry.human_feedback
                                       THEN RoundDiv(w * NudgeUpPct, 100)
                                       ELSE RoundDiv(w * NudgeDownPct, 100)
                             w1 == Clamp(nudged, Pct(WeightFloorPct),
                                         Pct(WeightCapPct))
                             history == helpers'[i].performance_history
                         IN  /\ \E sample \in BOOLEAN :
                                   history =
                                      Append(helpers[i].performance_history,
                                             sample)
                             /\ helpers'[i].reliability_weight =
                                   RoundDiv(EmaKeepPct * w1
                                              + EmaGainPct
                                                  * WindowAccuracy(history),
                                            100)
                    ELSE helpers'[i] = helpers[i]]_vars

C14_SampleTruth ==
    /\ [][AcceptedFeedbackStep =>
             LET record == HistoryAt(aggregation_history, NewEntry.analysis_id)
                 sample == \/ NewEntry.ground_truth = <<>>
                           \/ NewEntry.ground_truth[1] = NewEntry.human_feedback
             IN  \A i \in 1..Len(helpers) :
                     helpers[i].helper_id \in Participants(record)
                        => helpers'[i].performance_history
                              = Append(helpers[i].performance_history, sample)]_vars
    /\ []((\A k \in 1..Len(human_feedback_log) :
               human_feedback_log[k].ground_truth = <<>>)
            => \A i \in 1..Len(helpers) :
                  LET history == helpers[i].performance_history
                  IN  /\ \A j \in 1..Len(history) : history[j]
                      /\ history # <<>> => WindowAccuracy(history) = WScale)

\* C14 witness: every feedback so far said is_correct = False without a
\* ground truth, and a helper holds two samples, both true, with accuracy 1.0
C14_Witness ==
    /\ Len(human_feedback_log) >= 2
    /\ \A k \in 1..Len(human_feedback_log) :
          /\ human_feedback_log[k].ground_truth = <<>>
          /\ ~human_feedback_log[k].human_feedback
    /\ \E i \in 1..Len(helpers) :
          LET history == helpers[i].performance_history
          IN  /\ Len(history) = 2
              /\ history[1] /\ history[2]
              /\ WindowAccuracy(history) = WScale

\* C15: a call of analyze_candidate while no helper is registered ends in an
\* error and returns no result, appends no record to the history (so the id
\* of the next record is what it was), and leaves the feedback log and the
\* registry as they were.
C15_EmptyRegistryAnalyze ==
    [][(analyzeCalls' = analyzeCalls + 1 /\ helpers = <<>>) =>
          /\ call' = Call("analyze_candidate", "ValueError")
          /\ aggregation_history' = aggregation_history
          /\ Len(aggregation_history') = Len(aggregation_history)
          /\ human_feedback_log' = human_feedback_log
          /\ helpers' = helpers]_vars

\* C15 witness: analyze_candidate has just failed on the empty registry
C15_Witness ==
    /\ call = Call("analyze_candidate", "ValueError")
    /\ analyzeCalls >= 1
    /\ helpers = <<>>
    /\ aggregation_history = <<>>
    /\ human_feedback_log = <<>>

====
